---------------------------- MODULE Spec2Model ----------------------------
(***************************************************************************)
(* Model of three-of-mankind/game: the GameState of gamestate.py (level    *)
(* decoding, the per-frame update, the key handlers, the camera) driven by *)
(* the Game window of __main__.py.                                         *)
(*                                                                         *)
(* Coordinates are integers.  The physics engine, the Player class, the    *)
(* tile catalog, the helpers of utils.py and the values of constants.py    *)
(* are not part of the two source files; they are modelled from the        *)
(* specification text and from the way gamestate.py calls them.            *)
(***************************************************************************)
EXTENDS Integers, Sequences, FiniteSets, TLC

(***************************************************************************)
(* Values imported from constants.py (gamestate.py lines 7-22).  The file  *)
(* is not available; the values are small representatives.                 *)
(***************************************************************************)
TEXTURE_SIZE == 2

DASH_DISTANCE == 2

DASH_COUNT == 2

JUMP_COUNT == 1

JUMP_FORCE == 3

JUMP_VELOCITY_BONUS == 1

PLAYER_MOVEMENT_SPEED == 1

VIEWPORT_MARGIN == 1

LEFT == -1

RIGHT == 1

GROUND_CONTROL == "GROUND_CONTROL"

AIR_CONTROL == "AIR_CONTROL"

(***************************************************************************)
(* Bounds of the model.                                                    *)
(***************************************************************************)
\* the physics engine leaves the player within the columns 0 .. MaxCol and
\* on one of the rows 1 .. MaxRow of the tile grid
MaxCol == 4

MaxRow == 2

\* level indices 0 .. MaxLevel are attempted
MaxLevel == 1

\* jump presses are followed while jump_count < MaxJumpPresses
MaxJumpPresses == 2

\* dash emitters are followed up to this many
MaxEmitters == 2

\* the width and height of a window that the user has resized to little
\* more than the model's levels
SmallWidth == 8

SmallHeight == 5

\* the images decoded on their own have up to this many blocks
MaxBlocks == 4

(***************************************************************************)
(* Sprites.  A placed tile is a record; lvl is the index of the level      *)
(* whose decoding created it (a sprite object's identity).                 *)
(***************************************************************************)
NoSprite == [name |-> <<>>, left |-> 0, bottom |-> 0, lvl |-> -1]

\* Player(scale=0.99): a box one texture wide; boxes that only share an edge
\* do not collide, which is what the scale of 0.99 is for.
PlayerSize == TEXTURE_SIZE

\* arcade.check_for_collision of the box at (left, bottom) with sprite t
Overlaps(left, bottom, t) ==
    /\ left < t.left + TEXTURE_SIZE
    /\ t.left < left + PlayerSize
    /\ bottom < t.bottom + TEXTURE_SIZE
    /\ t.bottom < bottom + PlayerSize

\* player.collides_with_sprite(sprite); None collides with nothing
collides_with_sprite(p, t) == t # NoSprite /\ Overlaps(p.left, p.bottom, t)

\* player.collides_with_list(list): the colliding sprites, in list order
collides_with_list(p, list) == SelectSeq(list, LAMBDA t : Overlaps(p.left, p.bottom, t))

\* utils.is_touching(player, list)
is_touching(p, list) == \E i \in 1..Len(list) : Overlaps(p.left, p.bottom, list[i])

\* utils.sweep_trace(player, dx, dy, list): something of list lies on the
\* path of the player's box from its position to the position (dx, dy) away
sweep_trace(p, dx, dy, list) ==
    \E t \in 0..dx : \E i \in 1..Len(list) : Overlaps(p.left + t, p.bottom + dy, list[i])

\* PhysicsEnginePlatformer.can_jump(): a platform lies right below the player
can_jump(p, platforms) ==
    \E i \in 1..Len(platforms) : Overlaps(p.left, p.bottom - 1, platforms[i])

(***************************************************************************)
(* Level images.  A pixel is <<r, g, b, a>>; an image is a tuple of pixel  *)
(* rows, the top row first, so pixels[xi, yi] is image[yi + 1][xi + 1].    *)
(***************************************************************************)
PxW == <<255, 255, 255, 255>>
PxR == <<255, 0, 0, 255>>
PxG == <<0, 255, 0, 255>>
PxB == <<0, 0, 255, 255>>
PxL == <<0, 255, 255, 255>>
PxP == <<255, 0, 255, 255>>
PxD == <<0, 0, 0, 255>>
PxE == <<0, 0, 0, 0>>
\* a colour outside the palette
PxX == <<10, 20, 30, 255>>

\* to_int: (r << 24) + (g << 16) + (b << 8) + a, kept as its two 16-bit
\* halves <<high, low>> (the 32-bit value does not fit a model integer)
to_int(r, g, b, a) == <<r * 256 + g, b * 256 + a>>

\* color_map.get(value, "E")
color_map_get(v) ==
    CASE v = <<65535, 65535>> -> "W"
      [] v = <<65280, 255>>   -> "R"
      [] v = <<255, 255>>     -> "G"
      [] v = <<0, 65535>>     -> "B"
      [] v = <<255, 65535>>   -> "L"
      [] v = <<65280, 65535>> -> "P"
      [] v = <<0, 255>>       -> "D"
      [] v = <<0, 0>>         -> "E"
      [] OTHER                -> "E"

pixels(image, xi, yi) == image[yi + 1][xi + 1]

\* gen_colors for the block whose bottom pixel row is y and left column is x:
\* rows y-2 .. y, in each row columns x .. x+2
gen_colors(image, x, y) ==
    [k \in 1..9 |->
        LET yi == (y - 2) + ((k - 1) \div 3)
            xi == x + ((k - 1) % 3)
            px == pixels(image, xi, yi)
        IN  color_map_get(to_int(px[1], px[2], px[3], px[4]))]

(***************************************************************************)
(* The tile catalog (tile_image.tiles).  A tile's name is kept as its      *)
(* words, "block_red" as <<"block", "red">>.                               *)
(***************************************************************************)
Rep9(c) == [k \in 1..9 |-> c]

tiles ==
    { [sig |-> <<"W","W","W","W","E","W","W","W","W">>, name |-> <<"block">>],
      [sig |-> Rep9("W"), name |-> <<"block", "white">>],
      [sig |-> Rep9("R"), name |-> <<"block", "red">>],
      [sig |-> Rep9("G"), name |-> <<"block", "green">>],
      [sig |-> Rep9("B"), name |-> <<"block", "blue">>],
      [sig |-> Rep9("D"), name |-> <<"danger">>],
      [sig |-> Rep9("L"), name |-> <<"save">>],
      [sig |-> <<"L","P","P","P","P","P","P","P","P">>, name |-> <<"level", "start">>],
      [sig |-> <<"P","P","P","P","P","P","P","P","L">>, name |-> <<"level", "end">>] }

\* tiles[colors] raises KeyError exactly when this is FALSE
tiles_has(colors) == \E t \in tiles : t.sig = colors

tiles_get(colors) == (CHOOSE t \in tiles : t.sig = colors).name

\* name.startswith(words), name.endswith(words), on the words of a name
startswith(name, words) == Len(name) > 0 /\ name[1] \in words

endswith(name, words) == Len(name) > 0 /\ name[Len(name)] \in words

\* name.rsplit("_", 1)[-1]
last_word(name) == name[Len(name)]

ColorNames == {"red", "green", "blue", "white"}

(***************************************************************************)
(* GameState.load_level, lines 68-158.                                     *)
(***************************************************************************)
NoFile == <<>>

\* lines 121-144: the tile found for one block is placed and classified
place_tile(g, name, left, bottom, level_id) ==
    LET sprite == [name |-> name, left |-> left, bottom |-> bottom, lvl |-> level_id]
        isGeo == startswith(name, {"block", "danger"})
        isCol == endswith(name, ColorNames)
        isLvl == startswith(name, {"level"})
    IN  [g EXCEPT
           !.level_geometry = IF isGeo THEN Append(@, sprite) ELSE @,
           !.level_objects = IF isGeo THEN @ ELSE Append(@, sprite),
           !.colored_geometry =
               IF isCol THEN [@ EXCEPT ![last_word(name)] = Append(@, sprite)] ELSE @,
           !.saves = IF startswith(name, {"save"}) THEN Append(@, sprite) ELSE @,
           !.danger = IF startswith(name, {"danger"}) THEN Append(@, sprite) ELSE @,
           !.start = IF isLvl /\ endswith(name, {"start"}) THEN sprite ELSE @,
           !.end = IF isLvl /\ ~endswith(name, {"start"}) THEN sprite ELSE @]

ImgW(image) == Len(image[1])

ImgH(image) == Len(image)

\* range(0, w, 3) and range(h - 1, -1, -3) have this many elements
BlockCols(image) == (ImgW(image) + 2) \div 3

BlockRows(image) == (ImgH(image) + 2) \div 3

\* the scan as it would be if the rows were visited from the top of the image
scan_block_TopDown(g, image, n, level_id) ==
    LET by == n \div BlockCols(image)
        bx == n % BlockCols(image)
        y == 3 * by + 2
        x == 3 * bx
        colors == gen_colors(image, x, y)
    IN  IF tiles_has(colors)
        THEN place_tile(g, tiles_get(colors), TEXTURE_SIZE * bx, TEXTURE_SIZE * by, level_id)
        ELSE g

\* lines 110-149, the n-th block visited (n from 0): the rows from the bottom
\* of the image upwards, in each row the columns from the left
scan_block(g, image, n, level_id) ==
    LET by == n \div BlockCols(image)
        bx == n % BlockCols(image)
        y == (ImgH(image) - 1) - 3 * by
        x == 3 * bx
        colors == gen_colors(image, x, y)
    IN  IF tiles_has(colors)
        THEN place_tile(g, tiles_get(colors), TEXTURE_SIZE * bx, TEXTURE_SIZE * by, level_id)
        ELSE g

RECURSIVE scan_from(_, _, _, _)
scan_from(g, image, n, level_id) ==
    IF n >= BlockRows(image) * BlockCols(image)
    THEN g
    ELSE scan_from(scan_block(g, image, n, level_id), image, n + 1, level_id)

EmptyColored == [c \in ColorNames |-> <<>>]

\* lines 74-84: the fields of the level are replaced by empty ones
clear_level(g) ==
    [g EXCEPT !.level_objects = <<>>, !.level_geometry = <<>>, !.danger = <<>>,
              !.saves = <<>>, !.start = NoSprite, !.end = NoSprite,
              !.colored_geometry = EmptyColored]

\* the start tile that the loaded level's image holds
LevelStart(g) ==
    LET ss == SelectSeq(g.level_objects, LAMBDA t : t.name = <<"level", "start">>)
    IN  ss[Len(ss)]

\* move_to_start as it would be if it used the level's start tile instead of
\* self.start
move_to_start_LevelStart(g) ==
    [g EXCEPT !.player.left = LevelStart(g).left, !.player.bottom = LevelStart(g).bottom]

\* move_to_start as it would be if it left the player where it is
move_to_start_Stay(g) == g

\* lines 160-161
move_to_start(g) ==
    [g EXCEPT !.player.left = g.start.left, !.player.bottom = g.start.bottom]

\* load_level as it would be without the check of lines 151-154 for the end
\* marker
load_level_NoEndCheck(g, level_id, file) ==
    IF file = NoFile
    THEN [ret |-> "False", g |-> g]
    ELSE LET d == scan_from(clear_level(g), file, 0, level_id)
         IN  IF d.start = NoSprite THEN [ret |-> "RuntimeError", g |-> d]
             ELSE [ret |-> "True", g |-> move_to_start(d)]

\* load_level as it would be if the fields were replaced (lines 74-84) before
\* the file is opened
load_level_ClearFirst(g, level_id, file) ==
    IF file = NoFile
    THEN [ret |-> "False", g |-> clear_level(g)]
    ELSE LET d == scan_from(clear_level(g), file, 0, level_id)
         IN  IF d.start = NoSprite THEN [ret |-> "RuntimeError", g |-> d]
             ELSE IF d.end = NoSprite THEN [ret |-> "RuntimeError", g |-> d]
             ELSE [ret |-> "True", g |-> move_to_start(d)]

\* load_level(level_id) on the image file found under that index (NoFile:
\* Image.open raises OSError).  ret is "True", "False" or the exception
\* raised; g is the GameState it leaves.
load_level(g, level_id, file) ==
    IF file = NoFile
    THEN [ret |-> "False", g |-> g]
    ELSE LET d == scan_from(clear_level(g), file, 0, level_id)
         IN  IF d.start = NoSprite THEN [ret |-> "RuntimeError", g |-> d]
             ELSE IF d.end = NoSprite THEN [ret |-> "RuntimeError", g |-> d]
             ELSE [ret |-> "True", g |-> move_to_start(d)]

(***************************************************************************)
(* The level files of the model: what levels/level_<n>.png may hold.  An   *)
(* image is written as rows of 3x3 blocks, the top row first.              *)
(***************************************************************************)
Uniform(px) == <<<<px, px, px>>, <<px, px, px>>, <<px, px, px>>>>

BlkEmpty == Uniform(PxE)
BlkGround == <<<<PxW, PxW, PxW>>, <<PxW, PxE, PxW>>, <<PxW, PxW, PxW>>>>
BlkWhite == Uniform(PxW)
BlkBlue == Uniform(PxB)
BlkRed == Uniform(PxR)
BlkGreen == Uniform(PxG)
BlkDanger == Uniform(PxD)
BlkSave == Uniform(PxL)
BlkStart == <<<<PxL, PxP, PxP>>, <<PxP, PxP, PxP>>, <<PxP, PxP, PxP>>>>
BlkEnd == <<<<PxP, PxP, PxP>>, <<PxP, PxP, PxP>>, <<PxP, PxP, PxL>>>>
\* no tile: a signature the catalog does not hold, with a colour outside
\* the palette
BlkJunk == <<<<PxW, PxX, PxW>>, <<PxX, PxR, PxX>>, <<PxW, PxX, PxW>>>>

\* the pixel rows of one row of blocks
RECURSIVE JoinRow(_, _)
JoinRow(blocks, k) ==
    IF blocks = <<>> THEN <<>> ELSE Head(blocks)[k] \o JoinRow(Tail(blocks), k)

RECURSIVE ImageOf(_)
ImageOf(rows) ==
    IF rows = <<>> THEN <<>>
    ELSE <<JoinRow(Head(rows), 1), JoinRow(Head(rows), 2), JoinRow(Head(rows), 3)>>
         \o ImageOf(Tail(rows))

\* a level with two start markers (the one decoded last is the start), two
\* checkpoints, a hazard and coloured blocks
ImgA ==
    ImageOf(<< <<BlkJunk,   BlkStart,  BlkSave,  BlkDanger, BlkGreen>>,
               <<BlkStart,  BlkSave,   BlkEmpty, BlkRed,    BlkEnd>>,
               <<BlkGround, BlkGround, BlkGround, BlkGround, BlkGround>> >>)

\* a level without checkpoints, hazards or colours; its end tile lies in
\* column 5
ImgB ==
    ImageOf(<< <<BlkEmpty,  BlkGround, BlkEmpty,  BlkEmpty,  BlkEmpty,  BlkEmpty>>,
               <<BlkStart,  BlkEmpty,  BlkEmpty,  BlkGround, BlkEmpty,  BlkEnd>>,
               <<BlkGround, BlkGround, BlkGround, BlkGround, BlkGround, BlkGround>> >>)

\* a level with a block of every colour and a hazard; its end tile lies in
\* column 5
ImgC ==
    ImageOf(<< <<BlkEmpty,  BlkEmpty,  BlkEmpty,  BlkEmpty,  BlkDanger, BlkEmpty>>,
               <<BlkStart,  BlkWhite,  BlkRed,    BlkGreen,  BlkBlue,   BlkEnd>>,
               <<BlkGround, BlkGround, BlkGround, BlkGround, BlkGround, BlkGround>> >>)

ImgNoEnd ==
    ImageOf(<< <<BlkStart,  BlkSave>>,
               <<BlkGround, BlkDanger>> >>)

ImgNoStart ==
    ImageOf(<< <<BlkRed, BlkEnd>> >>)

Images == {ImgA, ImgB, ImgNoEnd, ImgNoStart}

Files == Images \cup {NoFile}

(***************************************************************************)
(* The Player (player.py) and GameState.__init__, lines 32-66.             *)
(***************************************************************************)
PLAYER_INIT_CENTER == 200

AllColors == <<"white", "red", "green", "blue">>

\* Player.set_color(name)
set_color(p, name) == [p EXCEPT !.str_color = name]

NewPlayer ==
    [left |-> PLAYER_INIT_CENTER - PlayerSize \div 2,
     bottom |-> PLAYER_INIT_CENTER - PlayerSize \div 2,
     str_color |-> "white", direction |-> RIGHT,
     dash_count |-> 0, jump_count |-> 0,
     is_jumping |-> FALSE, jump_force |-> 0, change_y |-> 0,
     movement_x |-> 0, movement_control |-> AIR_CONTROL]

\* an attribute that no load_level has set yet (self.start, self.end)
Undefined == [name |-> <<"undefined">>, left |-> 0, bottom |-> 0, lvl |-> -1]

\* the fields of a GameState before load_level(0) is called, lines 33-58
NewGameState ==
    [view_left |-> 0, view_bottom |-> 0, level |-> 0,
     level_geometry |-> <<>>, level_objects |-> <<>>,
     colored_geometry |-> EmptyColored,
     danger |-> <<>>, saves |-> <<>>, start |-> Undefined, end |-> Undefined,
     player |-> NewPlayer, engine |-> <<>>, dash_emitters |-> 0]

\* GameState(game): lines 60-66.  engine is the list of platforms the physics
\* engine was constructed with.
init_gamestate(file) ==
    LET r == load_level(NewGameState, NewGameState.level, file)
    IN  IF r.ret = "RuntimeError"
        THEN r
        ELSE [ret |-> r.ret,
              g |-> [r.g EXCEPT !.engine = r.g.level_geometry, !.dash_emitters = 0]]

(***************************************************************************)
(* GameState.on_update, lines 163-195.                                     *)
(***************************************************************************)
\* the colour rule as it would be without the discard of line 186
RECURSIVE color_rule_OwnColorToo(_, _)
color_rule_OwnColorToo(g, colors) ==
    IF colors = <<>> THEN g
    ELSE LET g1 == IF is_touching(g.player, g.colored_geometry[Head(colors)])
                   THEN move_to_start(g)
                   ELSE g
         IN  color_rule_OwnColorToo(g1, Tail(colors))

\* lines 185-189: the colours other than the player's, one after the other
RECURSIVE color_rule(_, _)
color_rule(g, colors) ==
    IF colors = <<>> THEN g
    ELSE LET color == Head(colors)
             g1 == IF /\ color # g.player.str_color
                      /\ is_touching(g.player, g.colored_geometry[color])
                   THEN move_to_start(g)
                   ELSE g
         IN  color_rule(g1, Tail(colors))

\* lines 177-189 on GameState g: a reset happens (move_to_start is called)
resets(g) ==
    LET saves == collides_with_list(g.player, g.saves)
        g1 == IF saves # <<>> THEN [g EXCEPT !.start = saves[Len(saves)]] ELSE g
        hit == is_touching(g1.player, g1.danger)
        g2 == IF hit THEN move_to_start(g1) ELSE g1
    IN  \/ hit
        \/ \E color \in {"red", "green", "blue"} \ {g2.player.str_color} :
               is_touching(g2.player, g2.colored_geometry[color])

\* lines 177-189: checkpoints, hazards, colours
apply_rules(g) ==
    LET saves == collides_with_list(g.player, g.saves)
        g1 == IF saves # <<>> THEN [g EXCEPT !.start = saves[Len(saves)]] ELSE g
        g2 == IF is_touching(g1.player, g1.danger) THEN move_to_start(g1) ELSE g1
    IN  color_rule(g2, <<"red", "green", "blue">>)

\* lines 165-189 with the file found for the next level index.  ret is
\* "none" (the end tile is not touched), load_level's "True" or "False", or
\* the exception that leaves on_update; reset tells whether move_to_start was
\* called by lines 182-189.
update_rules(g, file) ==
    LET g1 == [g EXCEPT !.player.movement_control =
                   IF can_jump(g.player, g.engine) THEN GROUND_CONTROL ELSE AIR_CONTROL]
    IN  IF g1.end = Undefined
        THEN [ret |-> "AttributeError", g |-> g1, reset |-> FALSE]
        ELSE IF ~collides_with_sprite(g1.player, g1.end)
        THEN [ret |-> "none", g |-> apply_rules(g1), reset |-> resets(g1)]
        ELSE LET g2 == [g1 EXCEPT !.level = @ + 1]
                 r == load_level(g2, g2.level, file)
             IN  IF r.ret = "RuntimeError"
                 THEN [ret |-> r.ret, g |-> r.g, reset |-> FALSE]
                 ELSE [ret |-> r.ret, g |-> apply_rules(r.g), reset |-> resets(r.g)]

\* int(v), lines 322-323: the fraction is dropped, towards zero
int(v) == IF v >= 0 THEN v \div 1 ELSE -((-v) \div 1)

\* update_screen as it would be without the scroll down of lines 313-316
update_screen_NoScrollDown(g, width, height) ==
    LET left_boundary == g.view_left + VIEWPORT_MARGIN
        vl1 == IF g.player.left < left_boundary
               THEN g.view_left - (left_boundary - g.player.left)
               ELSE g.view_left
        right_boundary == vl1 + width - VIEWPORT_MARGIN
        right == g.player.left + PlayerSize
        vl2 == IF right > right_boundary THEN vl1 + (right - right_boundary) ELSE vl1
        top_boundary == g.view_bottom + height - VIEWPORT_MARGIN
        top == g.player.bottom + PlayerSize
        vb1 == IF top > top_boundary
               THEN g.view_bottom + (top - top_boundary)
               ELSE g.view_bottom
    IN  [g EXCEPT !.view_left = int(vl2), !.view_bottom = int(vb1)]

\* update_screen as it would be if line 296 compared with <=
update_screen_LeftInclusive(g, width, height) ==
    LET left_boundary == g.view_left + VIEWPORT_MARGIN
        vl1 == IF g.player.left <= left_boundary
               THEN g.view_left - (left_boundary - g.player.left) - 1
               ELSE g.view_left
    IN  [g EXCEPT !.view_left = int(vl1)]

\* lines 286-323 in a window of the given width and height (the viewport
\* itself belongs to the renderer)
update_screen(g, width, height) ==
    LET left_boundary == g.view_left + VIEWPORT_MARGIN
        vl1 == IF g.player.left < left_boundary
               THEN g.view_left - (left_boundary - g.player.left)
               ELSE g.view_left
        right_boundary == vl1 + width - VIEWPORT_MARGIN
        right == g.player.left + PlayerSize
        vl2 == IF right > right_boundary THEN vl1 + (right - right_boundary) ELSE vl1
        top_boundary == g.view_bottom + height - VIEWPORT_MARGIN
        top == g.player.bottom + PlayerSize
        vb1 == IF top > top_boundary
               THEN g.view_bottom + (top - top_boundary)
               ELSE g.view_bottom
        bottom_boundary == vb1 + VIEWPORT_MARGIN
        vb2 == IF g.player.bottom < bottom_boundary
               THEN vb1 - (bottom_boundary - g.player.bottom)
               ELSE vb1
    IN  [g EXCEPT !.view_left = int(vl2), !.view_bottom = int(vb2)]

\* where the physics engine may leave the player: at any left within the
\* columns (PhysX), or only on the columns themselves (AlignedX)
PhysX == 0..(TEXTURE_SIZE * MaxCol)

AlignedX == {TEXTURE_SIZE * c : c \in 0..MaxCol}

PhysY == {TEXTURE_SIZE * r : r \in 1..MaxRow}

\* player.update() and engine.update(), lines 191-192: position and velocity
\* are integrated, which leaves the player at some (x, y), at rest on a
\* platform or falling.  The ability counters, the colour, the direction and
\* the level are not theirs to change.
physics_step(g, x, y) ==
    LET p == [g.player EXCEPT !.left = x, !.bottom = y]
    IN  [g EXCEPT !.player =
            [p EXCEPT !.change_y = IF can_jump(p, g.engine) THEN 0 ELSE -1]]

\* lines 191-195: the physics step, then the camera follows
update_engine(g, x, y, width, height) ==
    update_screen(physics_step(g, x, y), width, height)

(***************************************************************************)
(* GameState.on_key_press, lines 209-270, and on_key_release, 272-284.     *)
(***************************************************************************)
Keys == {"F", "R", "G", "B", "E", "LSHIFT", "SPACE", "LEFT", "A", "RIGHT", "D"}

\* line 212-217
colors_of_key(key) ==
    CASE key = "F" -> "white" [] key = "R" -> "red"
      [] key = "G" -> "green" [] key = "B" -> "blue"

\* all_colors.index(name), counted from 1
index_of(name) == CHOOSE i \in 1..Len(AllColors) : AllColors[i] = name

\* press_color as it would be if the cycle key advanced by two colours
press_color_SkipOne(g, key) ==
    IF key = "E"
    THEN [g EXCEPT !.player =
             set_color(@, AllColors[((index_of(@.str_color) - 1 + 2) % Len(AllColors)) + 1])]
    ELSE g

\* lines 218-224
press_color(g, key) ==
    LET p1 == IF key = "E"
              THEN set_color(g.player,
                       AllColors[((index_of(g.player.str_color) - 1 + 1) % Len(AllColors)) + 1])
              ELSE g.player
        p2 == IF key \in {"F", "R", "G", "B"} THEN set_color(p1, colors_of_key(key)) ELSE p1
    IN  [g EXCEPT !.player = p2]

\* the reset as it would be without line 228
press_pre_JumpOnly(g) ==
    IF can_jump(g.player, g.engine)
    THEN [g EXCEPT !.player.jump_count = 0]
    ELSE g

\* lines 227-229
press_pre(g) ==
    IF can_jump(g.player, g.engine)
    THEN [g EXCEPT !.player.dash_count = 0, !.player.jump_count = 0]
    ELSE g

\* the dash as it would be without the count of line 238
press_dash_NoCount(g, key) ==
    IF key = "LSHIFT" /\ ~sweep_trace(g.player, DASH_DISTANCE, 0, g.level_geometry)
    THEN IF can_jump(g.player, g.engine) \/ g.player.dash_count < DASH_COUNT
         THEN [g EXCEPT
                 !.player.left = (@ + DASH_DISTANCE * g.player.direction)
                                    + DASH_DISTANCE * g.player.direction,
                 !.dash_emitters = @ + 1]
         ELSE g
    ELSE g

\* lines 232-252
press_dash(g, key) ==
    IF key = "LSHIFT" /\ ~sweep_trace(g.player, DASH_DISTANCE, 0, g.level_geometry)
    THEN LET airborne == ~can_jump(g.player, g.engine)
             counted == airborne /\ g.player.dash_count < DASH_COUNT
             can_dash == ~airborne \/ counted
             g1 == IF counted THEN [g EXCEPT !.player.dash_count = @ + 1] ELSE g
         IN  IF can_dash
             THEN [g1 EXCEPT
                     !.player.left = (@ + DASH_DISTANCE * g.player.direction)
                                        + DASH_DISTANCE * g.player.direction,
                     !.dash_emitters = @ + 1]
             ELSE g1
    ELSE g

\* lines 255-262; vx is abs(velocity[0]), a value of the physics engine
press_jump(g, key, vx) ==
    IF key = "SPACE"
    THEN LET g1 == [g EXCEPT !.player.jump_count = @ + 1]
         IN  IF g1.player.jump_count <= JUMP_COUNT
             THEN [g1 EXCEPT !.player.change_y = 0, !.player.is_jumping = TRUE,
                             !.player.jump_force = JUMP_FORCE + vx * JUMP_VELOCITY_BONUS]
             ELSE g1
    ELSE g

\* lines 265-270
press_move(g, key) ==
    LET g1 == IF key \in {"LEFT", "A"}
              THEN [g EXCEPT !.player.movement_x = -PLAYER_MOVEMENT_SPEED,
                             !.player.direction = LEFT]
              ELSE g
    IN  IF key \in {"RIGHT", "D"}
        THEN [g1 EXCEPT !.player.movement_x = PLAYER_MOVEMENT_SPEED,
                        !.player.direction = RIGHT]
        ELSE g1

on_key_press(g, key, vx) ==
    press_move(press_jump(press_dash(press_pre(press_color(g, key)), key), key, vx), key)

on_key_release(g, key) ==
    LET g1 == IF key = "SPACE" THEN [g EXCEPT !.player.is_jumping = FALSE] ELSE g
    IN  IF key \in {"LEFT", "A"}
        THEN IF g1.player.movement_x < 0 THEN [g1 EXCEPT !.player.movement_x = 0] ELSE g1
        ELSE IF key \in {"RIGHT", "D"}
        THEN IF g1.player.movement_x > 0 THEN [g1 EXCEPT !.player.movement_x = 0] ELSE g1
        ELSE g1

(***************************************************************************)
(* The state: the Game window (__main__.py) and its GameState.             *)
(*   game   ingame and gamestate (FALSE: None) of the Game, and the width  *)
(*          and height of its window                                       *)
(*   gs     the fields of the GameState, once game.gamestate is set        *)
(*   fault  the exception that left a handler and ended arcade.run()       *)
(*   pc     "idle" between handlers, "engine" inside on_update before      *)
(*          line 191                                                       *)
(*   last   the handler that ran last and what it met:                     *)
(*            op        "start" (the on_update that started the game),     *)
(*                      "update", "press" or "release"; "load" for a       *)
(*                      load_level called on its own                       *)
(*            key       the key of a press or release                      *)
(*            ret       what load_level returned or raised in the handler, *)
(*                      "none" when it was not called                      *)
(*            reset     on_update called move_to_start in lines 182-189    *)
(*            grounded  what engine.can_jump() answered (lines 165, 227)   *)
(*            out       what a press did: "blocked", "refused", "dashed",  *)
(*                      "jumped", "nojump", or "none"                      *)
(*            blocks    the blocks of the image given to a load_level      *)
(*                      called on its own, the top row first               *)
(***************************************************************************)
VARIABLES game, gs, fault, pc, last

vars == <<game, gs, fault, pc, last>>

NoLast ==
    [op |-> "none", key |-> "", ret |-> "none", reset |-> FALSE,
     grounded |-> FALSE, out |-> "none", blocks |-> <<>>]

\* __main__.py line 53: the window is created SCREEN_WIDTH x SCREEN_HEIGHT and
\* resizable
SCREEN_WIDTH == 1024

SCREEN_HEIGHT == 768

InitIn(width, height) ==
    /\ game = [ingame |-> FALSE, gamestate |-> FALSE, width |-> width, height |-> height]
    /\ gs = NewGameState
    /\ fault = "none"
    /\ pc = "idle"
    /\ last = NoLast

Init == InitIn(SCREEN_WIDTH, SCREEN_HEIGHT)

\* Game.on_update, __main__.py lines 23-28, up to line 189 of
\* GameState.on_update.  file0 is what levels/level_0.png holds when the game
\* starts, file what the file of the next level index holds.
GameOnUpdate(file0, file) ==
    /\ pc = "idle"
    /\ fault = "none"
    /\ LET op == IF game.ingame THEN "update" ELSE "start"
           r0 == IF game.ingame THEN [ret |-> "none", g |-> gs] ELSE init_gamestate(file0)
       IN  IF r0.ret = "RuntimeError"
           THEN /\ game' = [game EXCEPT !.ingame = TRUE]
                /\ fault' = r0.ret
                /\ last' = [NoLast EXCEPT !.op = op, !.ret = r0.ret]
                /\ UNCHANGED <<gs, pc>>
           ELSE LET u == update_rules(r0.g, file)
                IN  /\ collides_with_sprite(r0.g.player, r0.g.end) => r0.g.level < MaxLevel
                    /\ game' = [game EXCEPT !.ingame = TRUE, !.gamestate = TRUE]
                    /\ gs' = u.g
                    /\ last' = [NoLast EXCEPT
                                  !.op = op,
                                  !.ret = IF u.ret \in {"True", "False", "RuntimeError"}
                                          THEN u.ret ELSE r0.ret,
                                  !.reset = u.reset,
                                  !.grounded = can_jump(r0.g.player, r0.g.engine)]
                    /\ IF u.ret \in {"RuntimeError", "AttributeError"}
                       THEN fault' = u.ret /\ pc' = pc
                       ELSE fault' = fault /\ pc' = "engine"

\* GameState.on_update from line 191 on
GameOnUpdateEngine(x, y) ==
    /\ pc = "engine"
    /\ gs' = update_engine(gs, x, y, game.width, game.height)
    /\ pc' = "idle"
    /\ UNCHANGED <<game, fault, last>>

\* what lines 232-262 do for the key, on the GameState that line 229 leaves
press_out(g, key) ==
    IF key = "LSHIFT"
    THEN IF sweep_trace(g.player, DASH_DISTANCE, 0, g.level_geometry) THEN "blocked"
         ELSE IF ~can_jump(g.player, g.engine) /\ g.player.dash_count >= DASH_COUNT
         THEN "refused"
         ELSE "dashed"
    ELSE IF key = "SPACE"
    THEN IF g.player.jump_count + 1 <= JUMP_COUNT THEN "jumped" ELSE "nojump"
    ELSE "none"

\* Game.on_key_press, __main__.py lines 37-40
GameOnKeyPress(key, vx) ==
    /\ pc = "idle"
    /\ fault = "none"
    /\ IF game.gamestate
       THEN LET g == on_key_press(gs, key, vx)
            IN  /\ g.player.left \in 0..(TEXTURE_SIZE * MaxCol)
                /\ g.dash_emitters <= MaxEmitters
                /\ g.player.jump_count <= MaxJumpPresses
                /\ gs' = g
                /\ last' = [NoLast EXCEPT
                              !.op = "press", !.key = key,
                              !.grounded = can_jump(gs.player, gs.engine),
                              !.out = press_out(press_pre(press_color(gs, key)), key)]
       ELSE /\ gs' = gs
            /\ last' = [NoLast EXCEPT !.op = "press", !.key = key]
    /\ UNCHANGED <<game, fault, pc>>

\* Game.on_key_release, __main__.py lines 42-45
GameOnKeyRelease(key) ==
    /\ pc = "idle"
    /\ fault = "none"
    /\ gs' = IF game.gamestate THEN on_key_release(gs, key) ELSE gs
    /\ last' = [NoLast EXCEPT !.op = "release", !.key = key]
    /\ UNCHANGED <<game, fault, pc>>

Speeds == {0, PLAYER_MOVEMENT_SPEED}

\* the files that matter to the next on_update: level_0.png before the game
\* has started, the next level's file when the end tile is touched
StartFiles(F) == IF game.ingame THEN {NoFile} ELSE F

NextFiles(F) ==
    IF game.gamestate /\ collides_with_sprite(gs.player, gs.end) THEN F ELSE {NoFile}

\* the handlers under an environment that presses the keys K, releases the
\* keys RK, holds one of the files F0 as level 0 and one of F for any later
\* level, and whose physics engine leaves the player at a left of X
NextIn(K, RK, F0, F, X) ==
    \/ \E file0 \in StartFiles(F0), file \in NextFiles(F) : GameOnUpdate(file0, file)
    \/ \E x \in X, y \in PhysY : GameOnUpdateEngine(x, y)
    \/ \E key \in K, vx \in Speeds : GameOnKeyPress(key, IF key = "SPACE" THEN vx ELSE 0)
    \/ \E key \in RK : GameOnKeyRelease(key)

\* the blocks that the images decoded on their own are made of
BlockKinds == {BlkStart, BlkEnd, BlkGround, BlkJunk}

\* the images of up to MaxBlocks blocks, each as its rows of blocks
BlockGrids ==
    UNION { [1..r -> [1..c -> BlockKinds]] :
              <<c, r>> \in {cr \in (1..MaxBlocks) \X (1..MaxBlocks) : cr[1] * cr[2] <= MaxBlocks} }

\* load_level(0) called on a GameState just constructed (line 60), with the
\* file holding the image of the given blocks
LoadLevel(blocks) ==
    /\ pc = "idle"
    /\ ~game.ingame
    /\ LET r == load_level(NewGameState, NewGameState.level, ImageOf(blocks))
       IN  /\ gs' = r.g
           /\ last' = [NoLast EXCEPT !.op = "load", !.ret = r.ret, !.blocks = blocks]
    /\ pc' = "loaded"
    /\ UNCHANGED <<game, fault>>

NextDecode == \E blocks \in BlockGrids : LoadLevel(blocks)

\* the decoder alone, on every image of up to MaxBlocks blocks
SpecDecode == Init /\ [][NextDecode]_vars

\* the game under every input of the model
Next == NextIn(Keys, Keys, Files, Files, PhysX)

Spec == Init /\ [][Next]_vars

\* levels and colours: every level file, colour keys, every left
NextLevels == NextIn({"E", "R"}, {"E"}, Files, Files, PhysX)

SpecLevels == Init /\ [][NextLevels]_vars

\* the camera: a small window on a level of plain blocks
InitCamera == InitIn(SmallWidth, SmallHeight)

NextCamera == NextIn({"LEFT"}, {"LEFT"}, {ImgB}, {NoFile}, PhysX)

SpecCamera == InitCamera /\ [][NextCamera]_vars

\* the colours: the cycle key on a level with a block of every colour
NextColors == NextIn({"E"}, {"E"}, {ImgC}, {NoFile}, PhysX)

SpecColors == Init /\ [][NextColors]_vars

\* dashing: the dash and direction keys on a level of plain blocks
NextDash == NextIn({"LSHIFT", "LEFT", "RIGHT"}, {"LEFT"}, {ImgB}, {NoFile}, AlignedX)

SpecDash == Init /\ [][NextDash]_vars

\* the ability counters: the dash and jump keys on a level of plain blocks
NextAbility == NextIn({"LSHIFT", "SPACE"}, {"SPACE"}, {ImgB}, {NoFile}, AlignedX)

SpecAbility == Init /\ [][NextAbility]_vars

(***************************************************************************)
(* Properties.                                                             *)
(***************************************************************************)
\* the Level that a GameState holds
LevelFields(g) ==
    <<g.level_geometry, g.level_objects, g.colored_geometry, g.danger, g.saves,
      g.start, g.end>>

\* a step is the first half of an on_update of the running game
IsUpdateStep == pc = "idle" /\ last'.op = "update"

Position(g) == <<g.player.left, g.player.bottom>>

\* C1: when load_level, called by on_update on reaching the end tile, meets an
\* image without a start or an end marker, it fails and the geometry, decor,
\* coloured geometry, hazards, checkpoints, start and end of the session are
\* what they were before the call.
C1_InvalidLevelKeepsPreviousLevel ==
    [][(IsUpdateStep /\ last'.ret = "RuntimeError")
          => LevelFields(gs') = LevelFields(gs)]_vars

\* C2: when the end tile is touched and the next level's file cannot be
\* opened, the geometry, decor, coloured geometry, hazards, checkpoints and end
\* stay what they were, the respawn reference and the player's position are
\* only changed by the checkpoint and reset rules of the same update, and the
\* update goes on without a fault.
C2_NotFoundKeepsLevel ==
    [][(IsUpdateStep /\ last'.ret = "False")
          => /\ gs'.level_geometry = gs.level_geometry
             /\ gs'.level_objects = gs.level_objects
             /\ gs'.colored_geometry = gs.colored_geometry
             /\ gs'.danger = gs.danger
             /\ gs'.saves = gs.saves
             /\ gs'.end = gs.end
             /\ collides_with_list(gs.player, gs.saves) = <<>> => gs'.start = gs.start
             /\ ~last'.reset => Position(gs') = Position(gs)
             /\ fault' = "none"
             /\ pc' = "engine"]_vars

\* a frame has run to its end after a transition that found no file
C2_Witness ==
    /\ pc = "idle" /\ fault = "none"
    /\ last.op = "update" /\ last.ret = "False"
    /\ gs.level = gs.end.lvl + 1

\* the rules of lines 177-189 are met by a player at p among the tiles of g:
\* a hazard or a coloured tile of another colour than the player's is touched
TouchesDeadly(p, g) ==
    \/ is_touching(p, g.danger)
    \/ \E color \in {"red", "green", "blue"} \ {p.str_color} :
           is_touching(p, g.colored_geometry[color])

\* where the player is when line 177 is reached in the step: on the start of
\* the level that the step has loaded, or where it was
AtRules ==
    IF last'.ret = "True"
    THEN [gs.player EXCEPT !.left = LevelStart(gs').left, !.bottom = LevelStart(gs').bottom]
    ELSE gs.player

\* the respawn reference of the step: the checkpoint claimed in it, else the
\* start of the level it has loaded, else the reference held before
RespawnReference ==
    LET claimed == collides_with_list(AtRules, gs'.saves)
    IN  IF claimed # <<>> THEN claimed[Len(claimed)]
        ELSE IF last'.ret = "True" THEN LevelStart(gs')
        ELSE gs.start

\* C3: an on_update in which the player touches a hazard or a coloured tile of
\* another colour puts the player's left and bottom on those of the respawn
\* reference; the reference is the checkpoint claimed last in the level (one
\* claimed in the same update included) and the level's start tile while none
\* has been claimed, so after a claim no reset of that level leads to the
\* start tile.
C3_ResetToRespawnReference ==
    [][(IsUpdateStep /\ pc' = "engine")
          => /\ gs'.start = RespawnReference
             /\ TouchesDeadly(AtRules, gs')
                  => Position(gs') = <<RespawnReference.left, RespawnReference.bottom>>
             /\ ~TouchesDeadly(AtRules, gs') => Position(gs') = <<AtRules.left, AtRules.bottom>>
             /\ (gs.start.name = <<"save">> /\ last'.ret # "True")
                  => gs'.start.name = <<"save">>
             /\ \/ gs'.start = LevelStart(gs')
                \/ \E i \in 1..Len(gs'.saves) : gs'.start = gs'.saves[i]]_vars

\* a reset has put the player on a claimed checkpoint, away from the start
C3_Witness ==
    /\ pc = "engine" /\ last.op = "update" /\ last.reset
    /\ gs.start.name = <<"save">>
    /\ Position(gs) = <<gs.start.left, gs.start.bottom>>
    /\ Position(gs) # <<LevelStart(gs).left, LevelStart(gs).bottom>>

\* the engine reports the player grounded
Grounded(g) == can_jump(g.player, g.engine)

\* C4 as claimed: after every on_update frame in which the physics engine
\* reports the player grounded, jump_count and dash_count are 0.
C4_CountsZeroAfterGroundedUpdate ==
    (pc = "idle" /\ fault = "none" /\ last.op \in {"start", "update"}
       /\ last.grounded /\ Grounded(gs))
        => (gs.player.jump_count = 0 /\ gs.player.dash_count = 0)

\* a step is a press of the dash key that the sweep finds obstructed
IsBlockedDash ==
    /\ pc = "idle" /\ last'.op = "press" /\ last'.key = "LSHIFT" /\ game.gamestate
    /\ sweep_trace(gs.player, DASH_DISTANCE, 0, gs.level_geometry)

\* C5 as claimed: a dash press that the sweep finds obstructed leaves the
\* player's position, dash_count and the dash emitters as they were.
C5_BlockedDashChangesNothing ==
    [][IsBlockedDash
          => /\ Position(gs') = Position(gs)
             /\ gs'.player.dash_count = gs.player.dash_count
             /\ gs'.dash_emitters = gs.dash_emitters]_vars

\* the circular order of the colours
NextColor(c) ==
    CASE c = "white" -> "red" [] c = "red" -> "green"
      [] c = "green" -> "blue" [] c = "blue" -> "white"

\* the player's colour after n presses of the cycle key on GameState g
RECURSIVE ColorAfterCycles(_, _)
ColorAfterCycles(g, n) ==
    IF n = 0 THEN g.player.str_color
    ELSE ColorAfterCycles(on_key_press(g, "E", 0), n - 1)

\* C6: a press of the cycle key takes the player's colour to the next one of
\* white -> red -> green -> blue -> white, whatever the colour was; four
\* presses in a row lead back to the colour they started from and one, two or
\* three presses do not.
C6_CycleOrder ==
    [][(pc = "idle" /\ last'.op = "press" /\ last'.key = "E" /\ game.gamestate)
          => /\ gs'.player.str_color = NextColor(gs.player.str_color)
             /\ ColorAfterCycles(gs, 4) = gs.player.str_color
             /\ \A n \in 1..3 : ColorAfterCycles(gs, n) # gs.player.str_color]_vars

\* the cycle key has taken the player from blue back to white
C6_Witness ==
    /\ game.gamestate
    /\ last.op = "press" /\ last.key = "E"
    /\ gs.player.str_color = "white"

\* the number of tiles of list that s refers to
Occurrences(s, list) == Cardinality({i \in 1..Len(list) : list[i] = s})

\* C7: when load_level has returned True, start and end are set, each is
\* exactly one of the tiles that this call has placed, start is a tile named
\* level...start and end a level tile whose name does not end in start.
C7_StartAndEndAfterLoad ==
    (pc = "engine" /\ last.op \in {"start", "update"} /\ last.ret = "True")
        => /\ gs.start \notin {NoSprite, Undefined}
           /\ gs.end \notin {NoSprite, Undefined}
           /\ Occurrences(gs.start, gs.level_objects) = 1
           /\ Occurrences(gs.end, gs.level_objects) = 1
           /\ gs.start # gs.end
           /\ gs.start.lvl = gs.level
           /\ gs.end.lvl = gs.level
           /\ \A i \in 1..Len(gs.level_objects) : gs.level_objects[i].lvl = gs.level
           /\ startswith(gs.start.name, {"level"}) /\ endswith(gs.start.name, {"start"})
           /\ startswith(gs.end.name, {"level"}) /\ ~endswith(gs.end.name, {"start"})

\* a transition has loaded the level with two start markers
C7_Witness ==
    /\ pc = "engine" /\ last.op = "update" /\ last.ret = "True"
    /\ gs.level > 0
    /\ Len(SelectSeq(gs.level_objects, LAMBDA t : t.name = <<"level", "start">>)) > 1

\* the player lies within the right, top and bottom margins of the view of g
InsideOtherMargins(p, g) ==
    /\ p.left + PlayerSize <= g.view_left + game.width - VIEWPORT_MARGIN
    /\ p.bottom + PlayerSize <= g.view_bottom + game.height - VIEWPORT_MARGIN
    /\ p.bottom >= g.view_bottom + VIEWPORT_MARGIN

\* C8: update_screen, called with the player within the right, top and bottom
\* margins: view_left stays as it is when player.left >= view_left +
\* VIEWPORT_MARGIN, and is decreased by exactly d when player.left =
\* view_left + VIEWPORT_MARGIN - d with d > 0; it is an integer.
C8_LeftMargin ==
    [][(pc = "engine" /\ InsideOtherMargins(gs'.player, gs))
          => LET d == (gs.view_left + VIEWPORT_MARGIN) - gs'.player.left
             IN  /\ d <= 0 => gs'.view_left = gs.view_left
                 /\ d > 0 => gs'.view_left = gs.view_left - d
                 /\ gs'.view_left \in Int]_vars

\* the view has followed the player to the left of where the level begins
C8_Witness ==
    /\ pc = "idle" /\ last.op = "update"
    /\ gs.view_left < 0
    /\ gs.player.left = gs.view_left + VIEWPORT_MARGIN

\* C9 as claimed: a load_level that fails in a level transition, because the
\* file cannot be opened or because the image has no start or no end marker,
\* raises nothing that leaves on_update.
C9_NoDecodeFaultLeavesUpdate ==
    (last.op = "update" /\ last.ret \in {"False", "RuntimeError"}) => fault = "none"

\* a step is a press of the dash key with nothing in the way of the sweep
IsClearDash ==
    /\ pc = "idle" /\ last'.op = "press" /\ last'.key = "LSHIFT" /\ game.gamestate
    /\ ~sweep_trace(gs.player, DASH_DISTANCE, 0, gs.level_geometry)

\* the step has dashed: the player is moved and an emitter is added
Dashed == gs'.player.left # gs.player.left /\ gs'.dash_emitters = gs.dash_emitters + 1

\* the step has left the player and the emitters where they were
NotDashed == gs'.player.left = gs.player.left /\ gs'.dash_emitters = gs.dash_emitters

\* C10: dash_count stays within 0 .. DASH_COUNT; an unobstructed dash press
\* with the player airborne dashes exactly when dash_count < DASH_COUNT and
\* then adds 1 to dash_count, and is refused with dash_count unchanged
\* otherwise; an unobstructed dash press with the player grounded always
\* dashes and leaves dash_count at 0.
C10_DashBudget ==
    [][/\ gs'.player.dash_count \in 0..DASH_COUNT
       /\ (IsClearDash /\ ~Grounded(gs))
            => IF gs.player.dash_count < DASH_COUNT
               THEN Dashed /\ gs'.player.dash_count = gs.player.dash_count + 1
               ELSE NotDashed /\ gs'.player.dash_count = gs.player.dash_count
       /\ (IsClearDash /\ Grounded(gs))
            => Dashed /\ gs'.player.dash_count = 0]_vars

\* an airborne dash has been refused with the budget used up
C10_Witness ==
    /\ last.op = "press" /\ last.key = "LSHIFT" /\ last.out = "refused"
    /\ ~last.grounded
    /\ gs.player.dash_count = DASH_COUNT
    /\ gs.dash_emitters = DASH_COUNT

\* a step is a press of the jump key
IsJumpPress == pc = "idle" /\ last'.op = "press" /\ last'.key = "SPACE" /\ game.gamestate

\* C11 as claimed: a press of the jump key adds 1 to the jump_count it finds;
\* the jump is performed (change_y set to 0, is_jumping set, jump_force
\* assigned from JUMP_FORCE and the horizontal speed) exactly when the new
\* jump_count <= JUMP_COUNT, and a refused press changes nothing but
\* jump_count.
C11_JumpPressIncrements ==
    [][IsJumpPress
          => /\ gs'.player.jump_count = gs.player.jump_count + 1
             /\ IF gs.player.jump_count + 1 <= JUMP_COUNT
                THEN /\ gs'.player.change_y = 0
                     /\ gs'.player.is_jumping
                     /\ \E vx \in Speeds :
                            gs'.player.jump_force = JUMP_FORCE + vx * JUMP_VELOCITY_BONUS
                ELSE gs' = [gs EXCEPT !.player.jump_count = @ + 1]]_vars

\* the GameState on which lines 232-262 decide the dash and the jump of a
\* press of key
AtAbilityLogic(key) == press_pre(press_color(gs, key))

\* C12: when a press of the jump or the dash key is handled with the player
\* grounded, jump_count and dash_count are 0 when the dash and the jump are
\* decided, whatever happened before; the jump of a grounded press is always
\* performed and the dash of a grounded press that the sweep finds clear is
\* always carried out.
C12_GroundedPressHasFullAbilities ==
    [][(pc = "idle" /\ last'.op = "press" /\ last'.key \in {"SPACE", "LSHIFT"}
          /\ game.gamestate /\ Grounded(gs))
          => /\ AtAbilityLogic(last'.key).player.jump_count = 0
             /\ AtAbilityLogic(last'.key).player.dash_count = 0
             /\ gs'.player.dash_count = 0
             /\ last'.key = "SPACE"
                  => /\ last'.out = "jumped"
                     /\ gs'.player.jump_count = 1
                     /\ gs'.player.is_jumping
             /\ last'.key = "LSHIFT"
                  => /\ gs'.player.jump_count = 0
                     /\ last'.out \in {"dashed", "blocked"}
                     /\ IsClearDash => Dashed]_vars

\* a grounded jump press has taken effect after dashes were made
C12_Witness ==
    /\ last.op = "press" /\ last.key = "SPACE" /\ last.grounded
    /\ last.out = "jumped"
    /\ gs.player.jump_count = 1
    /\ gs.dash_emitters >= DASH_COUNT

\* a step is a press of the dash key
IsDashPress == pc = "idle" /\ last'.op = "press" /\ last'.key = "LSHIFT" /\ game.gamestate

\* a tile of list lies within dist of the player's box on the side the player
\* faces
GeometryAhead(p, dist, list) ==
    \E t \in 0..dist : \E i \in 1..Len(list) :
        Overlaps(p.left + t * p.direction, p.bottom, list[i])

\* C13 as claimed: the dash of a press is cancelled exactly when level
\* geometry lies within DASH_DISTANCE of the player on the side it faces;
\* geometry on the other side alone never cancels it.
C13_SweepAlongFacing ==
    [][IsDashPress
          => (last'.out = "blocked"
                <=> GeometryAhead(gs.player, DASH_DISTANCE, gs.level_geometry))]_vars

\* the tiles of the colours red, green and blue other than the player's that
\* p touches among the tiles of g
TouchesOtherColor(p, g) ==
    \E c \in {"red", "green", "blue"} \ {p.str_color} :
        is_touching(p, g.colored_geometry[c])

\* C14: in an on_update in which no hazard is touched, the player is reset
\* exactly when it touches a red, green or blue tile of another colour than
\* its own: tiles of its own colour and white tiles never reset it, whatever
\* its colour, and a white player is reset by red, green and blue tiles.
C14_ColorRule ==
    [][(IsUpdateStep /\ pc' = "engine" /\ ~is_touching(AtRules, gs'.danger))
          => /\ TouchesOtherColor(AtRules, gs')
                  => Position(gs') = <<gs'.start.left, gs'.start.bottom>>
             /\ ~TouchesOtherColor(AtRules, gs')
                  => Position(gs') = <<AtRules.left, AtRules.bottom>>
             /\ (/\ \A c \in {"red", "green", "blue"} :
                        is_touching(AtRules, gs'.colored_geometry[c])
                            => c = AtRules.str_color
                 /\ \/ is_touching(AtRules, gs'.colored_geometry["white"])
                    \/ is_touching(AtRules, gs'.colored_geometry[AtRules.str_color]))
                  => Position(gs') = <<AtRules.left, AtRules.bottom>>
             /\ (AtRules.str_color = "white"
                   /\ \E c \in {"red", "green", "blue"} :
                          is_touching(AtRules, gs'.colored_geometry[c]))
                  => Position(gs') = <<gs'.start.left, gs'.start.bottom>>]_vars

\* a blue player has stayed on a blue tile through an update
C14_Witness ==
    /\ pc = "engine" /\ last.op = "update" /\ ~last.reset
    /\ gs.player.str_color = "blue"
    /\ is_touching(gs.player, gs.colored_geometry["blue"])
    /\ Position(gs) # <<gs.start.left, gs.start.bottom>>

\* C15 as claimed: the platforms that the physics engine holds are the
\* geometry of the level that is loaded, also after an on_update that has
\* loaded the next level.
C15_EngineUsesLoadedGeometry ==
    (game.gamestate /\ fault = "none" /\ last.op \in {"start", "update"})
        => gs.engine = gs.level_geometry

\* the tiles that the load_level whose level is held has placed
PlacedTiles(g) == g.level_geometry \o g.level_objects

\* C16: once on_update has run, the respawn reference is a tile of the level
\* that is loaded, its start marker or one of its checkpoints; after an
\* on_update that has loaded a level the reference is that level's start
\* tile, not a checkpoint of the level before, and the player is on it.
C16_RespawnReferenceOfLoadedLevel ==
    (game.gamestate /\ fault = "none")
        => /\ Occurrences(gs.start, gs.level_objects) = 1
           /\ gs.start = LevelStart(gs) \/ Occurrences(gs.start, gs.saves) = 1
           /\ \A i \in 1..Len(PlacedTiles(gs)) : PlacedTiles(gs)[i].lvl = gs.start.lvl
           /\ (pc = "engine" /\ last.ret = "True")
                => /\ gs.start = LevelStart(gs)
                   /\ gs.start.lvl = gs.level
                   /\ Position(gs) = <<gs.start.left, gs.start.bottom>>

\* a checkpoint of the second level is the respawn reference
C16_Witness ==
    /\ game.gamestate /\ fault = "none" /\ pc = "idle"
    /\ gs.level > 0
    /\ gs.start.name = <<"save">>
    /\ gs.start.lvl = gs.level

\* the tile catalog holds the signature of the block
KnownBlock(b) == b \in {BlkStart, BlkEnd, BlkGround}

\* the name of the tile that the catalog holds for the block
NameOfBlock(b) ==
    CASE b = BlkStart -> <<"level", "start">>
      [] b = BlkEnd -> <<"level", "end">>
      [] b = BlkGround -> <<"block">>

\* one tile for every block of a known signature, by the block's column from
\* the left and its row from the bottom of the image
ExpectedTiles(blocks) ==
    { [name |-> NameOfBlock(blocks[i][j]),
       left |-> TEXTURE_SIZE * (j - 1),
       bottom |-> TEXTURE_SIZE * (Len(blocks) - i),
       lvl |-> 0] :
        <<i, j>> \in {ij \in (1..Len(blocks)) \X (1..Len(blocks[1])) :
                        KnownBlock(blocks[ij[1]][ij[2]])} }

\* the tiles that the decode has placed are the expected ones, one each
PlacedAsExpected ==
    /\ Len(PlacedTiles(gs)) = Cardinality(ExpectedTiles(last.blocks))
    /\ {PlacedTiles(gs)[k] : k \in 1..Len(PlacedTiles(gs))} = ExpectedTiles(last.blocks)

\* the image decoded is one block of a known signature
SingleKnownBlock ==
    Len(last.blocks) = 1 /\ Len(last.blocks[1]) = 1 /\ KnownBlock(last.blocks[1][1])

\* the decode has placed one tile, at (0, 0)
OneTileAtOrigin ==
    /\ Len(PlacedTiles(gs)) = 1
    /\ PlacedTiles(gs)[1].left = 0
    /\ PlacedTiles(gs)[1].bottom = 0

\* C17 as claimed: a successful decode places one tile for every block of a
\* known signature, at TEXTURE_SIZE times the block's column from the left and
\* its row from the bottom, and nothing for the other blocks; the decode of an
\* image of a single block of a known signature is such a decode and yields
\* one tile at (0, 0).
C17_SuccessfulDecodePlacesTiles ==
    (pc = "loaded")
        => /\ last.ret = "True" => PlacedAsExpected
           /\ SingleKnownBlock => (last.ret = "True" /\ OneTileAtOrigin)

\* C17: every decode of an image that can be opened, successful or not,
\* places one tile for every block of a known signature, at TEXTURE_SIZE times
\* the block's column from the left and its row from the bottom, and nothing
\* for the other blocks; an image of a single block of a known signature
\* leaves one tile at (0, 0) but its decode is never successful: it cannot
\* hold both markers, and load_level raises RuntimeError.
C17_DecodePlacesTiles ==
    (pc = "loaded")
        => /\ PlacedAsExpected
           /\ SingleKnownBlock => (last.ret = "RuntimeError" /\ OneTileAtOrigin)
           /\ last.ret \in {"True", "RuntimeError"}

\* an image of two rows with an unknown block has been decoded with success
C17_Witness ==
    /\ pc = "loaded" /\ last.ret = "True"
    /\ Len(last.blocks) = 2 /\ Len(last.blocks[1]) = 2
    /\ last.blocks[2][1] = BlkJunk
    /\ last.blocks[1][1] = BlkStart
    /\ gs.start.bottom = TEXTURE_SIZE
    /\ Len(PlacedTiles(gs)) = 3

\* the player's box fits between the margins of the window
PlayerFitsWindow ==
    /\ PlayerSize <= game.width - 2 * VIEWPORT_MARGIN
    /\ PlayerSize <= game.height - 2 * VIEWPORT_MARGIN

\* C18: with integer coordinates and a player that fits between the margins,
\* after the update_screen of every on_update the player lies within the
\* margin of each of the four edges of the view, wherever it was put since
\* the frame before.
C18_PlayerWithinMargins ==
    (game.gamestate /\ fault = "none" /\ pc = "idle" /\ last.op \in {"start", "update"}
       /\ PlayerFitsWindow)
        => /\ gs.view_left + VIEWPORT_MARGIN <= gs.player.left
           /\ gs.player.left + PlayerSize <= gs.view_left + game.width - VIEWPORT_MARGIN
           /\ gs.view_bottom + VIEWPORT_MARGIN <= gs.player.bottom
           /\ gs.player.bottom + PlayerSize <= gs.view_bottom + game.height - VIEWPORT_MARGIN

\* the view has followed the player to the right and upwards, then down again
C18_Witness ==
    /\ game.gamestate /\ fault = "none" /\ pc = "idle" /\ last.op = "update"
    /\ gs.view_left > 0
    /\ gs.player.left + PlayerSize = gs.view_left + game.width - VIEWPORT_MARGIN
    /\ gs.view_bottom > 0
    /\ gs.player.bottom = gs.view_bottom + VIEWPORT_MARGIN

\* the index of the level that is loaded: the one its tiles were decoded for
LoadedLevel(g) == g.end.lvl

\* C19 as claimed: the level index of the session is the index of the level
\* that is loaded, also after transitions that found no file.
C19_LevelIndexIsLoadedLevel ==
    (game.gamestate /\ fault = "none") => gs.level = LoadedLevel(gs)

\* the player's box touches level geometry somewhere on the way from where it
\* was before the step to where it is after it
DashPathMeetsGeometry ==
    \E x \in 0..(TEXTURE_SIZE * MaxCol) :
        /\ \/ gs.player.left <= x /\ x <= gs'.player.left
           \/ gs'.player.left <= x /\ x <= gs.player.left
        /\ \E i \in 1..Len(gs.level_geometry) :
               Overlaps(x, gs.player.bottom, gs.level_geometry[i])

\* C20 as claimed: a dash that is carried out moves the player neither into
\* nor through level geometry: no tile of the geometry lies on the path from
\* the position before the press to the position after it.
C20_DashPathIsClear ==
    [][(IsDashPress /\ Dashed) => ~DashPathMeetsGeometry]_vars

=============================================================================
